---- MODULE Spec2Model ----
(***************************************************************************)
(* Model of ozz-animation's convert2anim tool                              *)
(* (src/animation/offline/tools/convert2anim.cc): the configuration        *)
(* sanitizer, the output file name builder, the Export pipeline and the    *)
(* AnimationConverter::operator() coordinator.                             *)
(***************************************************************************)
EXTENDS Integers, Sequences, FiniteSets, TLC

VARIABLES
    pc,             \* position of the running function
    config,         \* Json::Value config (the configuration tree)
    config_before,  \* history: the tree as it was when Sanitize was last entered
    sanitize_ret,   \* outcome of the last Sanitize call: "none", "true", "false", "threw"
    native_endianness, \* ozz::GetNativeEndianness() of the host
    options_endian, \* OPTIONS_endian
    steps,          \* history: outcome of each step of operator()
    imported,       \* history: the animations as Import returned them
    animations,     \* Animations animations (operator())
    i,              \* loop index of operator()
    success,        \* bool success (operator())
    exit_status,    \* value operator() returned, "none" before it returns
    raw_animation,  \* RawAnimation raw_animation (Export)
    animation,      \* Animation* animation (Export)
    stages,         \* history: the stages the running Export has invoked
    exported,       \* history: one record per Export call that returned
    archives,       \* the output files written, in order
    failures,       \* history: the stages of Export that reported a failure
    bf_filename,    \* _filename (BuildFilename)
    bf_animation,   \* _animation (BuildFilename)
    output,         \* ozz::String::Std output (BuildFilename)
    asterisk        \* size_t asterisk (BuildFilename), 0 for npos

sanitizer_vars == <<config, config_before, sanitize_ret>>

converter_vars ==
    <<native_endianness, options_endian, steps, imported, animations, i, success,
      exit_status>>

export_vars == <<raw_animation, animation, stages, exported, archives, failures>>

filename_vars == <<bf_filename, bf_animation, output, asterisk>>

vars == <<pc, sanitizer_vars, converter_vars, export_vars, filename_vars>>

(***************************************************************************)
(* Bounds of the model.                                                    *)
(***************************************************************************)
\* Longest "animations" array of an input configuration tree.
MaxAnimations == 2

\* Most animations one Import call returns.
MaxImported == 2

\* Longest output pattern and longest animation name given to BuildFilename.
MaxPatternLen == 3

MaxNameLen == 2

(***************************************************************************)
(* Json::Value.  A value is a tagged union: its type and the holder of the *)
(* payload.  A member that Value::find does not find has type "absent".    *)
(* The configuration tree has the shape of the schema: root, the           *)
(* "animations" member, its elements, each element's five members, and     *)
(* the four members of "optimization_tolerances".                          *)
(***************************************************************************)
Leaf(t, b, s, r) == [type |-> t, bool_ |-> b, string_ |-> s, real_ |-> r]

Absent == Leaf("absent", FALSE, <<>>, "none")

JsonBool(b) == Leaf("booleanValue", b, <<>>, "none")

JsonString(s) == Leaf("stringValue", FALSE, s, "none")

JsonReal(r) == Leaf("realValue", FALSE, <<>>, r)

\* A value of another type (null, integer, array, ...): payload not read by the tool.
JsonOther(t) == Leaf(t, FALSE, <<>>, "none")

Tolerances(t) ==
    [type |-> t, translation |-> Absent, rotation |-> Absent,
     scale |-> Absent, hierarchical |-> Absent]

AnimationEntry(t) ==
    [type |-> t, output |-> Absent, optimize |-> Absent,
     optimization_tolerances |-> Tolerances("absent"),
     raw |-> Absent, additive |-> Absent]

\* The "animations" member: elems are the elements of an array, size the
\* number of members when the value is an object.
AnimationsMember(t, elems, size) == [type |-> t, elems |-> elems, size |-> size]

Root(t, member) == [type |-> t, animations |-> member]

\* Json::Value config; a default constructed value is null.
NullRoot == Root("nullValue", AnimationsMember("absent", <<>>, 0))

\* Value::find and Value::operator[](const char*) require an object or null.
FindThrows(value) == value.type \notin {"nullValue", "objectValue"}

\* Value::size(): elements of an array, members of an object, 0 otherwise.
Size(value) ==
    IF value.type = "arrayValue" THEN Len(value.elems)
    ELSE IF value.type = "objectValue" THEN value.size
    ELSE 0

(***************************************************************************)
(* The sanitizer.  MakeDefault* take the member as found in the parent     *)
(* (Absent when not found) and return the success flag and the member as   *)
(* the parent holds it afterwards.                                         *)
(***************************************************************************)
MakeDefaultArray(found) ==
    IF found.type = "absent"
    THEN [success |-> TRUE,
          member |-> AnimationsMember("arrayValue", <<AnimationEntry("nullValue")>>, 0)]
    ELSE [success |-> found.type = "arrayValue", member |-> found]

MakeDefaultObject(found) ==
    IF found.type = "absent"
    THEN [success |-> TRUE, member |-> Tolerances("nullValue")]
    ELSE [success |-> found.type = "objectValue", member |-> found]

\* MakeDefault storing the default as an integer instead of the schema's type.
MakeDefaultWrongType(found, kType, value) ==
    IF found.type = "absent"
    THEN [success |-> TRUE, member |-> [value EXCEPT !.type = "intValue"]]
    ELSE [success |-> found.type = kType, member |-> found]

MakeDefault(found, kType, value) ==
    IF found.type = "absent"
    THEN [success |-> TRUE, member |-> value]
    ELSE [success |-> found.type = kType, member |-> found]

\* The defaults of the schema.
DefaultOutput == <<"*", ".", "o", "z", "z">>

\* AnimationOptimizer().<x>_tolerance: the optimizer's own default.
DefaultTolerance == "AnimationOptimizer"

SanitizeOptimizationTolerances(root) ==
    LET obj == MakeDefaultObject(root.optimization_tolerances)
        tolerances == obj.member
    IN  IF FindThrows(tolerances)
        THEN [threw |-> TRUE, success |-> FALSE,
              root |-> [root EXCEPT !.optimization_tolerances = tolerances]]
        ELSE
        LET t == MakeDefault(tolerances.translation, "realValue", JsonReal(DefaultTolerance))
            r == MakeDefault(tolerances.rotation, "realValue", JsonReal(DefaultTolerance))
            s == MakeDefault(tolerances.scale, "realValue", JsonReal(DefaultTolerance))
            h == MakeDefault(tolerances.hierarchical, "realValue", JsonReal(DefaultTolerance))
            filled == [type |-> "objectValue", translation |-> t.member,
                       rotation |-> r.member, scale |-> s.member,
                       hierarchical |-> h.member]
        IN  [threw |-> FALSE,
             success |-> obj.success /\ t.success /\ r.success /\ s.success /\ h.success,
             root |-> [root EXCEPT !.optimization_tolerances = filled]]

SanitizeAnimation(root) ==
    IF FindThrows(root)
    THEN [threw |-> TRUE, success |-> FALSE, root |-> root]
    ELSE
    LET o == MakeDefault(root.output, "stringValue", JsonString(DefaultOutput))
        p == MakeDefault(root.optimize, "booleanValue", JsonBool(TRUE))
        r1 == [root EXCEPT !.type = "objectValue", !.output = o.member,
                           !.optimize = p.member]
        t == SanitizeOptimizationTolerances(r1)
    IN  IF t.threw
        THEN [threw |-> TRUE, success |-> FALSE, root |-> t.root]
        ELSE
        LET w == MakeDefault(t.root.raw, "booleanValue", JsonBool(FALSE))
            a == MakeDefault(t.root.additive, "booleanValue", JsonBool(FALSE))
        IN  [threw |-> FALSE,
             success |-> o.success /\ p.success /\ t.success /\ w.success /\ a.success,
             root |-> [t.root EXCEPT !.raw = w.member, !.additive = a.member]]

\* The element the loop of Sanitize hands to SanitizeAnimation on iteration n
\* (0-based): animations[0].
SanitizedIndex(n) == 0

RECURSIVE SanitizeLoop(_, _, _)
SanitizeLoop(array, n, ok) ==
    IF n >= Size(array)
    THEN [threw |-> FALSE, success |-> ok, animations |-> array]
    ELSE IF array.type # "arrayValue"
    THEN [threw |-> TRUE, success |-> FALSE, animations |-> array]
    ELSE
    LET at == SanitizedIndex(n) + 1
        s == SanitizeAnimation(array.elems[at])
        next == [array EXCEPT !.elems[at] = s.root]
    IN  IF s.threw
        THEN [threw |-> TRUE, success |-> FALSE, animations |-> next]
        ELSE SanitizeLoop(next, n + 1, ok /\ s.success)

Sanitize(root) ==
    IF FindThrows(root)
    THEN [threw |-> TRUE, success |-> FALSE, root |-> root]
    ELSE
    LET a == MakeDefaultArray(root.animations)
        loop == SanitizeLoop(a.member, 0, a.success)
    IN  [threw |-> loop.threw, success |-> loop.success,
         root |-> Root("objectValue", loop.animations)]

SanitizeOutcome(s) == IF s.threw THEN "threw" ELSE IF s.success THEN "true" ELSE "false"

(***************************************************************************)
(* Input configuration trees of the sanitizer's specification.             *)
(***************************************************************************)
UserString == <<"a", "*">>

Yes == <<"y", "e", "s">>

\* A member given by the user: of the schema's type, of another type, or null.
BoolMembers == {JsonBool(TRUE), JsonBool(FALSE), JsonString(Yes), JsonOther("nullValue")}

StringMembers == {JsonString(UserString), JsonOther("intValue"), JsonOther("nullValue")}

RealMembers == {JsonReal("user"), JsonOther("intValue")}

InputTolerances ==
    {Tolerances(t) : t \in {"objectValue", "nullValue", "intValue", "arrayValue"}}
    \cup {[Tolerances("objectValue") EXCEPT !.translation = m] : m \in RealMembers}
    \cup {[Tolerances("objectValue") EXCEPT !.rotation = m] : m \in RealMembers}
    \cup {[Tolerances("objectValue") EXCEPT !.scale = m] : m \in RealMembers}
    \cup {[Tolerances("objectValue") EXCEPT !.hierarchical = m] : m \in RealMembers}

\* An entry with every member given, of the schema's type.
FullEntry ==
    [type |-> "objectValue", output |-> JsonString(UserString),
     optimize |-> JsonBool(FALSE),
     optimization_tolerances |->
        [type |-> "objectValue", translation |-> JsonReal("user"),
         rotation |-> JsonReal("user"), scale |-> JsonReal("user"),
         hierarchical |-> JsonReal("user")],
     raw |-> JsonBool(TRUE), additive |-> JsonBool(TRUE)]

InputEntries ==
    {AnimationEntry(t) : t \in {"objectValue", "nullValue", "intValue"}}
    \cup {FullEntry}
    \cup {[AnimationEntry("objectValue") EXCEPT !.output = m] : m \in StringMembers}
    \cup {[AnimationEntry("objectValue") EXCEPT !.optimize = m] : m \in BoolMembers}
    \cup {[AnimationEntry("objectValue") EXCEPT !.raw = m] : m \in BoolMembers}
    \cup {[AnimationEntry("objectValue") EXCEPT !.additive = m] : m \in BoolMembers}
    \cup {[AnimationEntry("objectValue") EXCEPT !.optimization_tolerances = t] :
            t \in InputTolerances}

SeqsUpTo(S, n) == UNION {[1..k -> S] : k \in 0..n}

InputAnimations ==
    {AnimationsMember("arrayValue", elems, 0) : elems \in SeqsUpTo(InputEntries, MaxAnimations)}
    \cup {AnimationsMember(t, <<>>, 0) :
            t \in {"absent", "nullValue", "intValue", "stringValue", "objectValue"}}
    \cup {AnimationsMember("objectValue", <<>>, 1)}

InputTrees ==
    {Root("objectValue", a) : a \in InputAnimations}
    \cup {NullRoot, Root("intValue", AnimationsMember("absent", <<>>, 0)),
          Root("arrayValue", AnimationsMember("absent", <<>>, 0))}

(***************************************************************************)
(* The state before AnimationConverter::operator() has run.                *)
(***************************************************************************)
NoAnimation == [name |-> <<>>, index |-> -1, ops |-> <<>>]

NoSteps ==
    [ParseCommandLine |-> "none", parse |-> "none", Sanitize |-> "none",
     Exist |-> "none", ImportSkeleton |-> "none", Import |-> "none"]

ConverterIdle ==
    /\ options_endian = "native"
    /\ steps = NoSteps
    /\ imported = <<>>
    /\ animations = <<>>
    /\ i = 0
    /\ success = FALSE
    /\ exit_status = "none"

ExportIdle ==
    /\ raw_animation = NoAnimation
    /\ animation = [built |-> FALSE, from |-> NoAnimation]
    /\ stages = <<>>
    /\ exported = <<>>
    /\ archives = <<>>
    /\ failures = <<>>

FilenameIdle ==
    /\ bf_filename = <<>>
    /\ bf_animation = <<>>
    /\ output = <<>>
    /\ asterisk = 0

(***************************************************************************)
(* Specification of the sanitizer alone: Sanitize applied to an input      *)
(* tree, then applied again to its own result.                             *)
(***************************************************************************)
InitSanitize ==
    /\ pc = "Sanitize"
    /\ config \in InputTrees
    /\ config_before = config
    /\ sanitize_ret = "none"
    /\ native_endianness = "kLittleEndian"
    /\ ConverterIdle
    /\ ExportIdle
    /\ FilenameIdle

SanitizeOnce ==
    /\ pc = "Sanitize"
    /\ LET s == Sanitize(config)
       IN  /\ config' = s.root
           /\ sanitize_ret' = SanitizeOutcome(s)
    /\ config_before' = config
    /\ pc' = "sanitized"
    /\ UNCHANGED <<converter_vars, export_vars, filename_vars>>

SanitizeAgain ==
    /\ pc = "sanitized"
    /\ sanitize_ret = "true"
    /\ LET s == Sanitize(config)
       IN  /\ config' = s.root
           /\ sanitize_ret' = SanitizeOutcome(s)
    /\ config_before' = config
    /\ pc' = "resanitized"
    /\ UNCHANGED <<converter_vars, export_vars, filename_vars>>

NextSanitize == SanitizeOnce \/ SanitizeAgain

SpecSanitize == InitSanitize /\ [][NextSanitize]_vars

(***************************************************************************)
(* Claims about the sanitizer, checked under SpecSanitize.                 *)
(***************************************************************************)
LeafHas(member, kType) == member.type = kType

TolerancesPopulated(t) ==
    /\ t.type = "objectValue"
    /\ LeafHas(t.translation, "realValue")
    /\ LeafHas(t.rotation, "realValue")
    /\ LeafHas(t.scale, "realValue")
    /\ LeafHas(t.hierarchical, "realValue")

EntryPopulated(e) ==
    /\ e.type = "objectValue"
    /\ LeafHas(e.output, "stringValue")
    /\ LeafHas(e.optimize, "booleanValue")
    /\ LeafHas(e.raw, "booleanValue")
    /\ LeafHas(e.additive, "booleanValue")
    /\ TolerancesPopulated(e.optimization_tolerances)

SanitizeSucceeded == pc \in {"sanitized", "resanitized"} /\ sanitize_ret = "true"

\* C2: after a successful Sanitize, every entry i of the animations array
\* holds output, optimize, raw, additive and the four tolerances, each of
\* the schema's type.
C2_EveryEntryPopulated ==
    SanitizeSucceeded =>
        /\ config.animations.type = "arrayValue"
        /\ \A k \in 1..Len(config.animations.elems) :
              EntryPopulated(config.animations.elems[k])

\* C3: after a successful Sanitize, the animations array has at least one
\* entry and entry 0 is fully populated.
C3_FirstEntryPopulated ==
    SanitizeSucceeded =>
        /\ config.animations.type = "arrayValue"
        /\ Len(config.animations.elems) >= 1
        /\ EntryPopulated(config.animations.elems[1])

\* A recognized member that is present with a value of another type than the
\* schema's.
WrongLeaf(member, kType) == member.type \notin {"absent", kType}

WrongTolerances(t) ==
    \/ t.type \notin {"absent", "objectValue"}
    \/ /\ t.type = "objectValue"
       /\ \/ WrongLeaf(t.translation, "realValue")
          \/ WrongLeaf(t.rotation, "realValue")
          \/ WrongLeaf(t.scale, "realValue")
          \/ WrongLeaf(t.hierarchical, "realValue")

WrongEntry(e) ==
    /\ e.type = "objectValue"
    /\ \/ WrongLeaf(e.output, "stringValue")
       \/ WrongLeaf(e.optimize, "booleanValue")
       \/ WrongLeaf(e.raw, "booleanValue")
       \/ WrongLeaf(e.additive, "booleanValue")
       \/ WrongTolerances(e.optimization_tolerances)

\* The tree is an object whose animations entries are objects (or null), and
\* some recognized field of it is present with a wrong type.
HasWrongType(tree) ==
    /\ tree.type = "objectValue"
    /\ \/ tree.animations.type \notin {"absent", "arrayValue"}
       \/ /\ tree.animations.type = "arrayValue"
          /\ \A k \in 1..Len(tree.animations.elems) :
                tree.animations.elems[k].type \in {"objectValue", "nullValue"}
          /\ \E k \in 1..Len(tree.animations.elems) :
                WrongEntry(tree.animations.elems[k])

\* C4: when a recognized field of the input tree is present with a value of
\* the wrong type, Sanitize runs to completion and returns failure.
C4_WrongTypeFails ==
    (pc = "sanitized" /\ HasWrongType(config_before)) => sanitize_ret = "false"

\* C5: a second Sanitize call on a tree the first call accepted returns
\* success and leaves the tree unchanged.
C5_SanitizeIdempotent ==
    pc = "resanitized" => (sanitize_ret = "true" /\ config = config_before)

\* A second pass over a two-entry tree whose entry 0 received the default
\* output pattern from the first pass.
C5_Witness ==
    /\ pc = "resanitized"
    /\ Len(config.animations.elems) = 2
    /\ config.animations.elems[1].output = JsonString(DefaultOutput)
    /\ config.animations.elems[1].optimization_tolerances.scale = JsonReal(DefaultTolerance)

(***************************************************************************)
(* Strings are sequences of characters.                                    *)
(***************************************************************************)
\* std::string::find(c) and strchr: the 1-based position of the first c, 0
\* (npos, NULL) when there is none.
Find(str, c) ==
    IF \E k \in 1..Len(str) : str[k] = c
    THEN CHOOSE k \in 1..Len(str) :
            str[k] = c /\ \A j \in 1..(k - 1) : str[j] # c
    ELSE 0

\* std::string::replace(pos, count, with), pos 1-based.
\* replace that drops one character too many.
ReplaceTwo(str, pos, count, with) ==
    SubSeq(str, 1, pos - 1) \o with \o SubSeq(str, pos + count + 1, Len(str))

Replace(str, pos, count, with) ==
    SubSeq(str, 1, pos - 1) \o with \o SubSeq(str, pos + count, Len(str))

\* std::strcmp: 0 when the strings are equal, non-zero otherwise.
Strcmp(a, b) == IF a = b THEN 0 ELSE 1

(***************************************************************************)
(* Command line options.                                                   *)
(***************************************************************************)
ValidateEndianness(value) ==
    \/ Strcmp(value, "native") = 0
    \/ Strcmp(value, "little") = 0
    \/ Strcmp(value, "big") = 0

\* Values the user may give to --endian.
EndianValues == {"native", "little", "big", "middle"}

(***************************************************************************)
(* Reads of the configuration tree (non const Json::Value accessors).      *)
(***************************************************************************)
\* config["animations"][0]: a missing element reads as null.
Entry0(tree) ==
    IF tree.animations.type = "arrayValue" /\ Len(tree.animations.elems) >= 1
    THEN tree.animations.elems[1]
    ELSE AnimationEntry("nullValue")

\* Value::asCString() requires a string; a missing member reads as null.
AsCStringThrows(member) == member.type # "stringValue"

\* Value::asBool(): the flag of a boolean, false for null.  The tool reads
\* flags of a sanitized entry only.
AsBool(member) == member.type = "booleanValue" /\ member.bool_

(***************************************************************************)
(* ImportSkeleton, OutputSingleAnimation and the stages of Export.         *)
(***************************************************************************)
ImportSkeleton(opened, tag, built) ==
    IF ~opened THEN "NULL"
    ELSE IF tag = "RawSkeleton" THEN (IF built THEN "skeleton" ELSE "NULL")
    ELSE IF tag = "Skeleton" THEN "skeleton"
    ELSE "NULL"

\* OutputSingleAnimation with the test inverted.
OutputSeveralAnimations(pattern) == Find(pattern, "*") # 0

OutputSingleAnimation(pattern) == Find(pattern, "*") = 0

\* animations.resize(n), n not above the size.
Resize(vector, n) == SubSeq(vector, 1, n)

\* AdditiveAnimationBuilder and AnimationOptimizer: a raw animation out of a
\* raw animation; ops records what the value has been through.
AdditiveAnimationBuilder(raw) == [raw EXCEPT !.ops = Append(@, "additive")]

AnimationOptimizer(raw) == [raw EXCEPT !.ops = Append(@, "optimize")]

\* Animation* animation: NULL, or what AnimationBuilder made of a raw animation.
NULL == [built |-> FALSE, from |-> NoAnimation]

AnimationBuilder(raw) == [built |-> TRUE, from |-> raw]

\* Export building the runtime animation whatever "raw" says.
BuildsRuntimeAlways(cfg) == TRUE

\* Export builds the runtime animation unless "raw" is set.
BuildsRuntime(cfg) == ~AsBool(cfg.raw)

\* The endianness Export hands to the OArchive.
OutputEndianness(option, native) ==
    IF Strcmp(option, "little") # 0 THEN "kLittleEndian"
    ELSE IF Strcmp(option, "big") # 0 THEN "kBigEndian"
    ELSE native

\* What Export streams to the archive: the tagged object.
ArchiveContent(cfg, raw, runtime) ==
    IF AsBool(cfg.raw)
    THEN [tag |-> "RawAnimation", value |-> raw]
    ELSE [tag |-> "Animation", value |-> runtime.from]

NoArchive ==
    [filename |-> <<>>, endianness |-> "none", tag |-> "none", value |-> NoAnimation]

\* success = Export(...): the last result alone.
AccumulateLast(all, ret) == ret

\* success &= Export(...)
Accumulate(all, ret) == all /\ ret

\* An export loop that stops at the first failed Export.
LoopUntilFailure(n, size, all) == n < size /\ all

\* The loop condition of operator()'s export loop.
LoopContinues(n, size, all) == n < size

\* return success ? EXIT_SUCCESS : EXIT_FAILURE
ExitStatus(all) == IF all THEN "EXIT_SUCCESS" ELSE "EXIT_FAILURE"

(***************************************************************************)
(* Inputs of the converter.                                                *)
(***************************************************************************)
\* Names the importer gives to animations.
Names == {<<"a">>, <<"b">>, <<"*">>}

\* Longest string the model lets BuildFilename grow (memory is finite).
OutputCapacity == MaxPatternLen * MaxNameLen + Len(DefaultOutput)

NoWildcard == <<"c">>

ConverterEntries ==
    {[AnimationEntry("objectValue") EXCEPT
        !.additive = JsonBool(a), !.optimize = JsonBool(o), !.raw = JsonBool(r),
        !.output = out] :
        a \in BOOLEAN, o \in BOOLEAN, r \in BOOLEAN,
        out \in {Absent, JsonString(NoWildcard)}}

\* The configuration documents given with --config_string.
ConverterDocuments ==
    {Root("objectValue", AnimationsMember("arrayValue", <<e>>, 0)) : e \in ConverterEntries}
    \cup {Root("objectValue", AnimationsMember("absent", <<>>, 0)),
          Root("objectValue", AnimationsMember("arrayValue", <<>>, 0)),
          Root("objectValue", AnimationsMember("arrayValue",
                <<[AnimationEntry("objectValue") EXCEPT !.optimize = JsonString(Yes)]>>, 0)),
          Root("objectValue", AnimationsMember("arrayValue",
                <<AnimationEntry("objectValue"), FullEntry>>, 0)),
          Root("objectValue", AnimationsMember("arrayValue",
                <<[AnimationEntry("objectValue") EXCEPT
                     !.optimization_tolerances = Tolerances("intValue")]>>, 0))}

ImportedAnimations(names) ==
    [k \in 1..Len(names) |-> [name |-> names[k], index |-> k - 1, ops |-> <<>>]]

(***************************************************************************)
(* AnimationConverter::operator().                                         *)
(***************************************************************************)
Init ==
    /\ pc = "ParseCommandLine"
    /\ config = NullRoot
    /\ config_before = NullRoot
    /\ sanitize_ret = "none"
    /\ native_endianness \in {"kLittleEndian", "kBigEndian"}
    /\ ConverterIdle
    /\ ExportIdle
    /\ FilenameIdle

Return(status) ==
    /\ pc' = "returned"
    /\ exit_status' = status

ParseCommandLine ==
    /\ pc = "ParseCommandLine"
    /\ \E parse_result \in {"kSuccess", "kExitSuccess", "kExitFailure"},
          endian \in EndianValues :
          /\ ~ValidateEndianness(endian) => parse_result = "kExitFailure"
          /\ options_endian' = endian
          /\ steps' = [steps EXCEPT !.ParseCommandLine = parse_result]
          /\ IF parse_result # "kSuccess"
             THEN Return(IF parse_result = "kExitSuccess"
                         THEN "EXIT_SUCCESS" ELSE "EXIT_FAILURE")
             ELSE pc' = "parse" /\ exit_status' = exit_status
    /\ UNCHANGED <<sanitizer_vars, native_endianness, imported, animations, i,
                   success, export_vars, filename_vars>>

ParseConfig ==
    /\ pc = "parse"
    /\ \/ /\ steps' = [steps EXCEPT !.parse = "failed"]
          /\ Return("EXIT_FAILURE")
          /\ config' = config
       \/ \E document \in ConverterDocuments :
             /\ steps' = [steps EXCEPT !.parse = "ok"]
             /\ config' = document
             /\ pc' = "Sanitize"
             /\ exit_status' = exit_status
    /\ UNCHANGED <<config_before, sanitize_ret, native_endianness, options_endian,
                   imported, animations, i, success, export_vars, filename_vars>>

SanitizeConfig ==
    /\ pc = "Sanitize"
    /\ LET s == Sanitize(config)
       IN  /\ config' = s.root
           /\ config_before' = config
           /\ sanitize_ret' = SanitizeOutcome(s)
           /\ IF s.threw
              THEN /\ steps' = [steps EXCEPT !.Sanitize = "threw"]
                   /\ pc' = "threw"
                   /\ exit_status' = exit_status
              ELSE IF ~s.success
              THEN /\ steps' = [steps EXCEPT !.Sanitize = "failed"]
                   /\ Return("EXIT_FAILURE")
              ELSE /\ steps' = [steps EXCEPT !.Sanitize = "ok"]
                   /\ pc' = "Exist"
                   /\ exit_status' = exit_status
    /\ UNCHANGED <<native_endianness, options_endian, imported, animations, i,
                   success, export_vars, filename_vars>>

FileExist ==
    /\ pc = "Exist"
    /\ \E exist \in BOOLEAN :
          IF exist
          THEN /\ steps' = [steps EXCEPT !.Exist = "ok"]
               /\ pc' = "ImportSkeleton"
               /\ exit_status' = exit_status
          ELSE /\ steps' = [steps EXCEPT !.Exist = "failed"]
               /\ Return("EXIT_FAILURE")
    /\ UNCHANGED <<sanitizer_vars, native_endianness, options_endian, imported,
                   animations, i, success, export_vars, filename_vars>>

CallImportSkeleton ==
    /\ pc = "ImportSkeleton"
    /\ \E opened \in BOOLEAN, tag \in {"RawSkeleton", "Skeleton", "other"},
          built \in BOOLEAN :
          IF ImportSkeleton(opened, tag, built) = "NULL"
          THEN /\ steps' = [steps EXCEPT !.ImportSkeleton = "failed"]
               /\ Return("EXIT_FAILURE")
          ELSE /\ steps' = [steps EXCEPT !.ImportSkeleton = "ok"]
               /\ pc' = "Import"
               /\ exit_status' = exit_status
    /\ UNCHANGED <<sanitizer_vars, native_endianness, options_endian, imported,
                   animations, i, success, export_vars, filename_vars>>

CallImport ==
    /\ pc = "Import"
    /\ \/ /\ steps' = [steps EXCEPT !.Import = "failed"]
          /\ Return(ExitStatus(success))
          /\ UNCHANGED <<animations, imported, success>>
       \/ \E names \in SeqsUpTo(Names, MaxImported) :
             /\ steps' = [steps EXCEPT !.Import = "ok"]
             /\ animations' = ImportedAnimations(names)
             /\ imported' = ImportedAnimations(names)
             /\ success' = TRUE
             /\ pc' = "OutputSingleAnimation"
             /\ exit_status' = exit_status
    /\ UNCHANGED <<sanitizer_vars, native_endianness, options_endian, i,
                   export_vars, filename_vars>>

\* if (OutputSingleAnimation(config["animations"][0]["output"].asCString()) &&
\*     animations.size() > 1) animations.resize(1);
SelectAnimations ==
    /\ pc = "OutputSingleAnimation"
    /\ LET pattern == Entry0(config).output
       IN  IF AsCStringThrows(pattern)
           THEN pc' = "threw" /\ animations' = animations
           ELSE /\ animations' =
                     IF OutputSingleAnimation(pattern.string_) /\ Len(animations) > 1
                     THEN Resize(animations, 1)
                     ELSE animations
                /\ pc' = "loop"
    /\ i' = 0
    /\ UNCHANGED <<sanitizer_vars, native_endianness, options_endian, steps,
                   imported, success, exit_status, export_vars, filename_vars>>

\* for (size_t i = 0; i < animations.size(); ++i) success &= Export(...);
\* then return success ? EXIT_SUCCESS : EXIT_FAILURE.
ExportLoop ==
    /\ pc = "loop"
    /\ IF LoopContinues(i, Len(animations), success)
       THEN pc' = "additive" /\ exit_status' = exit_status
       ELSE Return(ExitStatus(success))
    /\ UNCHANGED <<sanitizer_vars, native_endianness, options_endian, steps,
                   imported, animations, i, success, export_vars, filename_vars>>

(***************************************************************************)
(* Export(animations[i], *skeleton, config["animations"][0]).              *)
(***************************************************************************)
ExportReturn(ret, invoked, archive) ==
    /\ exported' = Append(exported,
            [animation |-> animations[i + 1], ret |-> ret, stages |-> invoked,
             archive |-> archive])
    /\ success' = Accumulate(success, ret)
    /\ i' = i + 1
    /\ pc' = "loop"
    /\ raw_animation' = NoAnimation
    /\ animation' = NULL
    /\ stages' = <<>>

\* A stage of the Export of animations[i] reported a failure.
Failure(stage) == [index |-> animations[i + 1].index, stage |-> stage]

ExportAdditive ==
    /\ pc = "additive"
    /\ IF AsBool(Entry0(config).additive)
       THEN \E made \in BOOLEAN :
               IF made
               THEN /\ raw_animation' = AdditiveAnimationBuilder(animations[i + 1])
                    /\ stages' = Append(stages, "additive")
                    /\ pc' = "optimize"
                    /\ UNCHANGED <<i, success, animation, exported, failures>>
               ELSE /\ ExportReturn(FALSE, Append(stages, "additive"), NoArchive)
                    /\ failures' = Append(failures, Failure("additive"))
       ELSE /\ raw_animation' = animations[i + 1]
            /\ pc' = "optimize"
            /\ UNCHANGED <<i, success, animation, exported, stages, failures>>
    /\ UNCHANGED <<sanitizer_vars, native_endianness, options_endian, steps,
                   imported, animations, exit_status, archives, filename_vars>>

\* ExportOptimize going on to the build after the optimizer failed.
ExportOptimizeIgnoresFailure ==
    /\ pc = "optimize"
    /\ IF AsBool(Entry0(config).optimize)
       THEN \E optimized \in BOOLEAN :
               IF optimized
               THEN /\ raw_animation' = AnimationOptimizer(raw_animation)
                    /\ stages' = Append(stages, "optimize")
                    /\ pc' = "build"
                    /\ UNCHANGED <<i, success, animation, exported, failures>>
               ELSE /\ failures' = Append(failures, Failure("optimize"))
                    /\ stages' = Append(stages, "optimize")
                    /\ pc' = "build"
                    /\ UNCHANGED <<i, success, animation, exported, raw_animation>>
       ELSE /\ pc' = "build"
            /\ UNCHANGED <<i, success, animation, exported, stages, raw_animation, failures>>
    /\ UNCHANGED <<sanitizer_vars, native_endianness, options_endian, steps,
                   imported, animations, exit_status, archives, filename_vars>>

ExportOptimize ==
    /\ pc = "optimize"
    /\ IF AsBool(Entry0(config).optimize)
       THEN \E optimized \in BOOLEAN :
               IF optimized
               THEN /\ raw_animation' = AnimationOptimizer(raw_animation)
                    /\ stages' = Append(stages, "optimize")
                    /\ pc' = "build"
                    /\ UNCHANGED <<i, success, animation, exported, failures>>
               ELSE /\ ExportReturn(FALSE, Append(stages, "optimize"), NoArchive)
                    /\ failures' = Append(failures, Failure("optimize"))
       ELSE /\ pc' = "build"
            /\ UNCHANGED <<i, success, animation, exported, stages, raw_animation, failures>>
    /\ UNCHANGED <<sanitizer_vars, native_endianness, options_endian, steps,
                   imported, animations, exit_status, archives, filename_vars>>

ExportBuild ==
    /\ pc = "build"
    /\ IF BuildsRuntime(Entry0(config))
       THEN \E built \in BOOLEAN :
               IF built
               THEN /\ animation' = AnimationBuilder(raw_animation)
                    /\ stages' = Append(stages, "build")
                    /\ pc' = "BuildFilename"
                    /\ UNCHANGED <<i, success, raw_animation, exported, failures>>
               ELSE /\ ExportReturn(FALSE, Append(stages, "build"), NoArchive)
                    /\ failures' = Append(failures, Failure("build"))
       ELSE /\ pc' = "BuildFilename"
            /\ UNCHANGED <<i, success, animation, exported, stages, raw_animation, failures>>
    /\ UNCHANGED <<sanitizer_vars, native_endianness, options_endian, steps,
                   imported, animations, exit_status, archives, filename_vars>>

\* BuildFilename(_config["output"].asCString(), _raw_animation.name.c_str()):
\* entry of the function, output(_filename).
CallBuildFilename ==
    /\ pc = "BuildFilename"
    /\ bf_filename' = Entry0(config).output.string_
    /\ bf_animation' = animations[i + 1].name
    /\ output' = Entry0(config).output.string_
    /\ asterisk' = 0
    /\ pc' = "find"
    /\ UNCHANGED <<sanitizer_vars, converter_vars, export_vars>>

\* The loop's test: asterisk = output.find('*') finds an asterisk.
BuildFilenameFind ==
    /\ pc = "find"
    /\ Find(output, "*") # 0
    /\ asterisk' = Find(output, "*")
    /\ pc' = "replace"
    /\ UNCHANGED <<sanitizer_vars, converter_vars, export_vars, bf_filename,
                   bf_animation, output>>

\* The loop's body: output.replace(asterisk, 1, _animation).
BuildFilenameStep ==
    /\ pc = "replace"
    /\ LET replaced == Replace(output, asterisk, 1, bf_animation)
       IN  IF Len(replaced) > OutputCapacity
           THEN pc' = "threw" /\ output' = output
           ELSE pc' = "find" /\ output' = replaced
    /\ UNCHANGED <<sanitizer_vars, converter_vars, export_vars, bf_filename,
                   bf_animation, asterisk>>

\* BuildFilename returns (no asterisk is left); Export opens the file and
\* writes the archive.
ExportWrite ==
    /\ pc = "find"
    /\ Find(output, "*") = 0
    /\ \E opened \in BOOLEAN :
          IF opened
          THEN LET content == ArchiveContent(Entry0(config), raw_animation, animation)
                   archive ==
                       [filename |-> output,
                        endianness |-> OutputEndianness(options_endian, native_endianness),
                        tag |-> content.tag, value |-> content.value]
               IN  /\ archives' = Append(archives, archive)
                   /\ failures' = failures
                   /\ ExportReturn(TRUE, Append(stages, "write"), archive)
          ELSE /\ archives' = archives
               /\ failures' = Append(failures, Failure("open"))
               /\ ExportReturn(FALSE, stages, NoArchive)
    /\ bf_filename' = <<>>
    /\ bf_animation' = <<>>
    /\ output' = <<>>
    /\ asterisk' = 0
    /\ UNCHANGED <<sanitizer_vars, native_endianness, options_endian, steps,
                   imported, animations, exit_status>>

Next ==
    \/ ParseCommandLine
    \/ ParseConfig
    \/ SanitizeConfig
    \/ FileExist
    \/ CallImportSkeleton
    \/ CallImport
    \/ SelectAnimations
    \/ ExportLoop
    \/ ExportAdditive
    \/ ExportOptimize
    \/ ExportBuild
    \/ CallBuildFilename
    \/ BuildFilenameFind
    \/ BuildFilenameStep
    \/ ExportWrite

Spec == Init /\ [][Next]_vars

(***************************************************************************)
(* Claims about the converter, checked under Spec.                         *)
(***************************************************************************)
\* The endianness the --endian option asks for.
RequestedEndianness(option, native) ==
    IF option = "little" THEN "kLittleEndian"
    ELSE IF option = "big" THEN "kBigEndian"
    ELSE native

\* C1: every archive Export writes has the endianness the endian option
\* selects: the host's for "native", little for "little", big for "big".
C1_EndiannessMatchesOption ==
    \A k \in 1..Len(archives) :
        archives[k].endianness = RequestedEndianness(options_endian, native_endianness)

HasWildcard(pattern) == \E k \in 1..Len(pattern) : pattern[k] = "*"

Returned == pc = "returned"

ExportsSucceeded ==
    /\ Len(exported) = Len(animations)
    /\ \A k \in 1..Len(exported) : exported[k].ret

AllSucceeded ==
    /\ steps.parse = "ok"
    /\ steps.Sanitize = "ok"
    /\ steps.ImportSkeleton = "ok"
    /\ steps.Import = "ok"
    /\ ExportsSucceeded

AnyFailed ==
    \/ steps.parse = "failed"
    \/ steps.Sanitize = "failed"
    \/ steps.ImportSkeleton = "failed"
    \/ steps.Import = "failed"
    \/ \E k \in 1..Len(exported) : ~exported[k].ret

\* C6 as stated: the converter returns the success status only if
\* configuration parsing, Sanitize, ImportSkeleton, Import and every Export
\* succeeded, and the failure status if any of them failed.
C6_SuccessOnlyIfAllSucceeded ==
    Returned =>
        /\ exit_status = "EXIT_SUCCESS" => AllSucceeded
        /\ AnyFailed => exit_status = "EXIT_FAILURE"

\* C6 as amended: unless command line parsing ended with kExitSuccess (the
\* converter then returns success without running any step), the converter
\* returns the success status only if configuration parsing, Sanitize,
\* ImportSkeleton, Import and every Export succeeded; it returns the
\* failure status if any of them failed.
C6_SuccessOnlyIfAllSucceededOrExit ==
    Returned =>
        /\ exit_status = "EXIT_SUCCESS" =>
              (steps.ParseCommandLine = "kExitSuccess" \/ AllSucceeded)
        /\ AnyFailed => exit_status = "EXIT_FAILURE"

\* A run that exported two animations and returned success.
C6_Witness ==
    /\ Returned
    /\ exit_status = "EXIT_SUCCESS"
    /\ steps.ParseCommandLine = "kSuccess"
    /\ Len(exported) = 2

\* C7: Export is called once per retained animation, in the importer's
\* order, also after an Export that failed, and the batch outcome is the
\* conjunction of the Export results.
C7_EveryAnimationExportedOnce ==
    /\ Len(exported) <= Len(animations)
    /\ \A k \in 1..Len(exported) : exported[k].animation = animations[k]
    /\ (Returned /\ steps.Import = "ok") =>
          /\ Len(exported) = Len(animations)
          /\ (exit_status = "EXIT_SUCCESS") <=> (\A k \in 1..Len(exported) : exported[k].ret)

\* The first of two Exports failed, the second ran and succeeded.
C7_Witness ==
    /\ Returned
    /\ Len(exported) = 2
    /\ ~exported[1].ret
    /\ exported[2].ret
    /\ exit_status = "EXIT_FAILURE"

ExportedAnimations == [k \in 1..Len(exported) |-> exported[k].animation]

\* C8: with no '*' in the output pattern and more than one animation
\* imported, exactly the first imported animation is exported; with a '*'
\* in the pattern all imported animations are.
C8_SingleOutputKeepsFirst ==
    (Returned /\ steps.Import = "ok") =>
        LET pattern == Entry0(config).output.string_
        IN  /\ (~HasWildcard(pattern) /\ Len(imported) > 1) =>
                  ExportedAnimations = <<imported[1]>>
            /\ HasWildcard(pattern) => ExportedAnimations = imported

\* Two animations imported, a pattern without '*', one Export.
C8_Witness ==
    /\ Returned
    /\ ~HasWildcard(Entry0(config).output.string_)
    /\ Len(imported) = 2
    /\ Len(exported) = 1
    /\ exported[1].animation.index = 0

Flag(b, stage) == IF b THEN <<stage>> ELSE <<>>

ExpectedOps(cfg) ==
    Flag(cfg.additive.bool_, "additive") \o Flag(cfg.optimize.bool_, "optimize")

ExpectedStages(cfg) ==
    ExpectedOps(cfg) \o Flag(~cfg.raw.bool_, "build") \o <<"write">>

IsPrefix(a, b) == Len(a) <= Len(b) /\ SubSeq(b, 1, Len(a)) = a

\* C10: an Export that succeeds has run exactly the enabled stages, in the
\* order additive, optimize, build, write, each on the result of the one
\* before; build runs iff raw is false; the archive holds the raw animation
\* when raw is true and the built one otherwise; with no stage enabled and
\* raw set, what is written is the imported animation.  An Export that
\* fails has run a prefix of those stages.
C10_StagesInOrder ==
    \A k \in 1..Len(exported) :
        LET cfg == Entry0(config)
            e == exported[k]
        IN  /\ e.ret =>
                  /\ e.stages = ExpectedStages(cfg)
                  /\ e.archive.tag = (IF cfg.raw.bool_ THEN "RawAnimation" ELSE "Animation")
                  /\ e.archive.value = [e.animation EXCEPT !.ops = ExpectedOps(cfg)]
                  /\ (\E n \in 1..Len(e.stages) : e.stages[n] = "build") <=> ~cfg.raw.bool_
                  /\ (~cfg.additive.bool_ /\ ~cfg.optimize.bool_ /\ cfg.raw.bool_) =>
                        e.archive.value = e.animation
            /\ ~e.ret => IsPrefix(e.stages, ExpectedStages(cfg))

\* An Export with every stage enabled that succeeded.
C10_Witness ==
    \E k \in 1..Len(exported) :
        /\ exported[k].ret
        /\ exported[k].stages = <<"additive", "optimize", "build", "write">>
        /\ exported[k].archive.tag = "Animation"

\* The file of the animation with this index was opened for writing: the
\* open succeeded (the file was created or overwritten) or failed.
Opened(index) ==
    \/ \E k \in 1..Len(exported) :
          exported[k].animation.index = index /\ exported[k].archive # NoArchive
    \/ \E k \in 1..Len(failures) :
          failures[k].index = index /\ failures[k].stage = "open"

StageFailed(index) ==
    \E k \in 1..Len(failures) :
        failures[k].index = index /\ failures[k].stage # "open"

WrittenArchives ==
    SelectSeq([k \in 1..Len(exported) |-> exported[k].archive],
              LAMBDA a : a # NoArchive)

\* C11: a file is opened for writing only after configuration parsing,
\* Sanitize, ImportSkeleton and Import succeeded and, for that animation,
\* every enabled stage ran and succeeded; a failed stage leaves no file
\* created for its animation; after a Sanitize that failed there is no
\* import and no export.
C11_OpenOnlyAfterSuccess ==
    /\ \A index \in 0..(MaxImported - 1) :
          Opened(index) =>
              /\ steps.parse = "ok"
              /\ steps.Sanitize = "ok"
              /\ steps.ImportSkeleton = "ok"
              /\ steps.Import = "ok"
              /\ ~StageFailed(index)
              /\ \A k \in 1..Len(exported) :
                    exported[k].animation.index = index =>
                        IsPrefix(ExpectedOps(Entry0(config))
                                    \o Flag(~Entry0(config).raw.bool_, "build"),
                                 exported[k].stages)
    /\ archives = WrittenArchives
    /\ steps.Sanitize \in {"failed", "threw"} =>
          /\ steps.ImportSkeleton = "none"
          /\ steps.Import = "none"
          /\ exported = <<>>
          /\ archives = <<>>
          /\ failures = <<>>

\* The optimizer failed on the first animation, which left no file; the
\* second animation was written.
C11_Witness ==
    /\ Len(exported) = 2
    /\ failures = <<[index |-> 0, stage |-> "optimize"]>>
    /\ exported[1].archive = NoArchive
    /\ exported[2].archive # NoArchive
    /\ Len(archives) = 1

(***************************************************************************)
(* Specification of BuildFilename alone, over patterns and names.          *)
(***************************************************************************)
PatternChars == {"c", ".", "*"}

NameChars == {"j", "*"}

InitFilename ==
    /\ pc = "find"
    /\ bf_filename \in SeqsUpTo(PatternChars, MaxPatternLen)
    /\ bf_animation \in SeqsUpTo(NameChars, MaxNameLen)
    /\ output = bf_filename
    /\ asterisk = 0
    /\ config = NullRoot
    /\ config_before = NullRoot
    /\ sanitize_ret = "none"
    /\ native_endianness = "kLittleEndian"
    /\ ConverterIdle
    /\ ExportIdle

\* return output;
BuildFilenameReturn ==
    /\ pc = "find"
    /\ Find(output, "*") = 0
    /\ pc' = "BuildFilename returned"
    /\ UNCHANGED <<sanitizer_vars, converter_vars, export_vars, filename_vars>>

NextFilename == BuildFilenameFind \/ BuildFilenameStep \/ BuildFilenameReturn

SpecFilename == InitFilename /\ [][NextFilename]_vars

\* The pattern with each '*' replaced by the name, every other character kept.
RECURSIVE Substitute(_, _)
Substitute(pattern, name) ==
    IF pattern = <<>> THEN <<>>
    ELSE (IF Head(pattern) = "*" THEN name ELSE <<Head(pattern)>>)
         \o Substitute(Tail(pattern), name)

\* C9: for a name without '*', BuildFilename returns the pattern with each
\* '*' replaced by the name and every other character kept in order; the
\* result holds no '*'.
C9_WildcardsReplaced ==
    (pc = "BuildFilename returned" /\ ~HasWildcard(bf_animation)) =>
        /\ output = Substitute(bf_filename, bf_animation)
        /\ ~HasWildcard(output)

\* "*.c" with the name "jj" gave "jj.c".
C9_Witness ==
    /\ pc = "BuildFilename returned"
    /\ bf_filename = <<"*", ".", "c">>
    /\ bf_animation = <<"j", "j">>
    /\ output = <<"j", "j", ".", "c">>

(***************************************************************************)
(* BuildFilename under weak fairness: the loop keeps running while it can. *)
(***************************************************************************)
SpecFilenameFair == SpecFilename /\ WF_vars(NextFilename)

\* C12: BuildFilename terminates for every pattern and every animation
\* name, names holding a '*' included: the loop is eventually left (by the
\* return, or at worst by the exception of a string that outgrew memory).
C12_BuildFilenameTerminates ==
    <>(pc \in {"BuildFilename returned", "threw"})

====
